---- MODULE Spec2Model ----
(***************************************************************************)
(* Model of the Flask text-to-speech facade (src/tts.py).                  *)
(*                                                                         *)
(* The process builds one provider client at import time and then serves   *)
(* requests on a threaded server.  A handler runs without interruption     *)
(* until it returns a response or blocks in its single outbound call        *)
(* (client.synthesize_speech / client.list_voices); the provider's reply   *)
(* resumes it.  Texts are run-length encoded (runs of whitespace "ws" and  *)
(* of other characters "ch") so that lengths around the 5000 limit are     *)
(* reachable; strip() and len() are computed on that encoding.             *)
(* An exception message is modelled by the set of tokens that occur in it, *)
(* which is all that the handlers' substring tests look at.                *)
(***************************************************************************)
EXTENDS Integers, Sequences, FiniteSets

VARIABLES env, construct_raises, get_json_raises, client, threads, tmp_files, last

vars == <<env, construct_raises, get_json_raises, client, threads, tmp_files, last>>

(* ------------------------------ bounds --------------------------------- *)
MaxRuns == 3
MaxThreads == 2
MaxTmpFiles == 2

(* ------------------------- program constants --------------------------- *)
MaxTextLen == 5000
SupportedLanguageCount == 47

DefaultLanguageCode == "en-US"
DefaultVoiceName == "en-US-Wavenet-D"

PERMISSION_DENIED == "PERMISSION_DENIED"
INVALID_ARGUMENT == "INVALID_ARGUMENT"
UNIMPLEMENTED == "UNIMPLEMENTED"

required_vars == {"GOOGLE_CLOUD_PROJECT_ID", "GOOGLE_CLOUD_PRIVATE_KEY", "GOOGLE_CLOUD_CLIENT_EMAIL"}

(* ------------------------------ startup -------------------------------- *)
\* os.getenv(var) is falsy both when the variable is unset and when it is "".
EnvValues == {"unset", "empty", "set"}

missing_vars(e) == {v \in required_vars : e[v] # "set"}

\* Variant: a required variable counts as missing only when it is unset
\* (a test `is None` in place of `not os.getenv(var)`).
create_tts_client_unset_only(e, raises) ==
    IF {v \in required_vars : e[v] = "unset"} # {} THEN "None"
    ELSE IF raises THEN "None"
    ELSE "TextToSpeechClient"

\* create_tts_client(): None when a required variable is missing or when
\* building the credentials / the client raises; the client otherwise.
create_tts_client(e, raises) ==
    IF missing_vars(e) # {} THEN "None"
    ELSE IF raises THEN "None"
    ELSE "TextToSpeechClient"

(* ------------------------------- texts --------------------------------- *)
RunLens == {1, MaxTextLen - 1, MaxTextLen}
Run == [c : {"ws", "ch"}, n : RunLens]

Texts ==
    {s \in UNION {[1..k -> Run] : k \in 0..MaxRuns} :
        \A i \in 1..(Len(s) - 1) : s[i].c # s[i + 1].c}

RECURSIVE lstrip(_)
lstrip(s) == IF s = <<>> THEN <<>>
             ELSE IF Head(s).c = "ws" THEN lstrip(Tail(s)) ELSE s

RECURSIVE rstrip(_)
rstrip(s) == IF s = <<>> THEN <<>>
             ELSE IF s[Len(s)].c = "ws" THEN rstrip(SubSeq(s, 1, Len(s) - 1)) ELSE s

strip(s) == rstrip(lstrip(s))

RECURSIVE len(_)
len(s) == IF s = <<>> THEN 0 ELSE Head(s).n + len(Tail(s))

(* ------------------------------ requests ------------------------------- *)
\* An optional field is <<>> when absent and <<v>> when present.
Opt(S) == {<<>>} \cup {<<v>> : v \in S}

\* dict.get(key, default) / request.args.get(key, default)
get(o, default) == IF o = <<>> THEN default ELSE o[1]

TextValues == [isStr : {TRUE}, runs : Texts] \cup {[isStr |-> FALSE, runs |-> <<>>]}
EmptyStr == [isStr |-> TRUE, runs |-> <<>>]

LanguageCodes == {"fr-FR"}
VoiceNames == {"fr-FR-Wavenet-A"}

\* body: "none"      no body, or a Content-Type that is not application/json
\*       "malformed" Content-Type application/json, body does not parse
\*       "falsy"     valid JSON that is falsy and not an object (null, 0, [], "")
\*       "nonobject" valid JSON that is truthy and not an object ([1], "x", 7)
\*       "object"    a JSON object with the optional fields below
BodyKinds == {"none", "malformed", "falsy", "nonobject", "object"}
Paths == {"/health", "/tts", "/voices", "/supported-languages", "/nope"}
Methods == {"GET", "POST"}

NoReq == [method |-> "", path |-> "", body |-> "none", text |-> <<>>,
          languageCode |-> <<>>, voiceName |-> <<>>, language_code |-> <<>>]

TtsRequests ==
    {[NoReq EXCEPT !.method = "POST", !.path = "/tts", !.body = b] :
        b \in BodyKinds \ {"object"}}
    \cup
    {[NoReq EXCEPT !.method = "POST", !.path = "/tts", !.body = "object",
                   !.text = t, !.languageCode = l, !.voiceName = v] :
        t \in Opt(TextValues), l \in Opt(LanguageCodes), v \in Opt(VoiceNames)}

VoicesRequests ==
    {[NoReq EXCEPT !.method = "GET", !.path = "/voices", !.language_code = q] :
        q \in Opt(LanguageCodes)}

OtherRequests ==
    {[NoReq EXCEPT !.method = m, !.path = p] : m \in Methods, p \in Paths}
    \ {[NoReq EXCEPT !.method = "POST", !.path = "/tts"],
       [NoReq EXCEPT !.method = "GET", !.path = "/voices"]}

(* ------------------------------ responses ------------------------------ *)
NoResp == [status |-> 0, ctype |-> "", hasError |-> FALSE, error |-> "",
           detail |-> {}, tts_available |-> <<>>, content |-> <<>>, total_count |-> 0]

\* jsonify({'error': text}), status -- detail is the str(e) embedded by an f-string
json_error(text, detail, status) ==
    [NoResp EXCEPT !.status = status, !.ctype = "application/json",
                   !.hasError = TRUE, !.error = text, !.detail = detail]

json_ok(content, count) ==
    [NoResp EXCEPT !.status = 200, !.ctype = "application/json",
                   !.content = content, !.total_count = count]

(* ---------------------------- provider calls --------------------------- *)
NoCall == [op |-> "", text |-> <<>>, language_code |-> "", name |-> ""]
NoReply == [ok |-> TRUE, audio |-> "", voices |-> <<>>, msg |-> {}]

Markers == {PERMISSION_DENIED, INVALID_ARGUMENT, UNIMPLEMENTED}
ProviderMessages == {m \cup {"provider error"} : m \in SUBSET Markers}
Audio == {"mp3-A", "mp3-B"}
VoiceLists == {<<>>, <<"fr-FR-Wavenet-A">>, <<"en-US-Wavenet-D", "fr-FR-Wavenet-A">>}

NoLast == [kind |-> "none", handler |-> "", req |-> NoReq, call |-> NoCall,
           reply |-> NoReply, resp |-> NoResp, ncalls |-> 0]

(* -------------------------------- Init --------------------------------- *)
Init ==
    /\ env \in [required_vars -> EnvValues]
    /\ construct_raises \in BOOLEAN
    /\ get_json_raises \in BOOLEAN
    /\ client = create_tts_client(env, construct_raises)
    /\ threads = [t \in 1..MaxThreads |-> "idle"]
    /\ tmp_files = 0
    /\ last = NoLast

(* ------------------------------- routing ------------------------------- *)
\* The url map built by the @app.route decorators: the endpoint of a request,
\* "not_found" for an unknown path (werkzeug NotFound) and
\* "method_not_allowed" for a known path with another method (werkzeug
\* MethodNotAllowed).
route(req) ==
    IF req.path = "/health" THEN
        (IF req.method = "GET" THEN "health_check" ELSE "method_not_allowed")
    ELSE IF req.path = "/tts" THEN
        (IF req.method = "POST" THEN "text_to_speech" ELSE "method_not_allowed")
    ELSE IF req.path = "/voices" THEN
        (IF req.method = "GET" THEN "list_voices" ELSE "method_not_allowed")
    ELSE IF req.path = "/supported-languages" THEN
        (IF req.method = "GET" THEN "supported_languages" ELSE "method_not_allowed")
    ELSE "not_found"

(* --------------------------- pure handler parts ------------------------ *)
respond(resp) == [kind |-> "respond", resp |-> resp, call |-> NoCall]
outbound(call) == [kind |-> "call", resp |-> NoResp, call |-> call]

\* request.get_json(): raises BadRequest on a body that does not parse; with
\* a Content-Type other than application/json it returns None (Flask < 2.1)
\* or raises (400 BadRequest in 2.1/2.2, 415 UnsupportedMediaType later).
get_json(req) ==
    IF req.body = "malformed" THEN
        [raised |-> TRUE, exc |-> {"400 Bad Request"}, truthy |-> FALSE, isObject |-> FALSE]
    ELSE IF req.body = "none" THEN
        [raised |-> get_json_raises, exc |-> {"415 Unsupported Media Type"},
         truthy |-> FALSE, isObject |-> FALSE]
    ELSE IF req.body = "falsy" THEN
        [raised |-> FALSE, exc |-> {}, truthy |-> FALSE, isObject |-> FALSE]
    ELSE IF req.body = "nonobject" THEN
        [raised |-> FALSE, exc |-> {}, truthy |-> TRUE, isObject |-> FALSE]
    ELSE
        [raised |-> FALSE, exc |-> {},
         truthy |-> (req.text # <<>> \/ req.languageCode # <<>> \/ req.voiceName # <<>>),
         isObject |-> TRUE]

\* Variant: INVALID_ARGUMENT is tested before PERMISSION_DENIED.
tts_except_reordered(e) ==
    IF INVALID_ARGUMENT \in e THEN
        json_error("Invalid request parameters: ", e, 400)
    ELSE IF PERMISSION_DENIED \in e THEN
        json_error("Permission denied. Please check your Google Cloud credentials and API access.", {}, 403)
    ELSE IF UNIMPLEMENTED \in e THEN
        json_error("TTS service is currently unavailable. Please try again later.", {}, 503)
    ELSE
        json_error("TTS service error: ", e, 500)

\* The except block of text_to_speech: e is the set of tokens occurring in str(e).
tts_except(e) ==
    IF PERMISSION_DENIED \in e THEN
        json_error("Permission denied. Please check your Google Cloud credentials and API access.", {}, 403)
    ELSE IF INVALID_ARGUMENT \in e THEN
        json_error("Invalid request parameters: ", e, 400)
    ELSE IF UNIMPLEMENTED \in e THEN
        json_error("TTS service is currently unavailable. Please try again later.", {}, 503)
    ELSE
        json_error("TTS service error: ", e, 500)

\* Variant: the limit is tested with >= (a text of exactly 5000 is refused).
tts_validate_ge(req) ==
    LET raw == get(req.text, EmptyStr) IN
    IF ~raw.isStr THEN respond(tts_except({"AttributeError"}))
    ELSE
        LET text == strip(raw.runs)
            language_code == get(req.languageCode, DefaultLanguageCode)
            voice_name == get(req.voiceName, DefaultVoiceName)
        IN  IF text = <<>> THEN respond(json_error("Text is required", {}, 400))
            ELSE IF len(text) >= MaxTextLen THEN
                respond(json_error("Text too long (max 5000 characters)", {}, 400))
            ELSE outbound([op |-> "synthesize_speech", text |-> text,
                           language_code |-> language_code, name |-> voice_name])

\* Variant: the checks use the trimmed text but the text as received is sent.
tts_validate_raw_text(req) ==
    LET raw == get(req.text, EmptyStr) IN
    IF ~raw.isStr THEN respond(tts_except({"AttributeError"}))
    ELSE
        LET text == strip(raw.runs)
            language_code == get(req.languageCode, DefaultLanguageCode)
            voice_name == get(req.voiceName, DefaultVoiceName)
        IN  IF text = <<>> THEN respond(json_error("Text is required", {}, 400))
            ELSE IF len(text) > MaxTextLen THEN
                respond(json_error("Text too long (max 5000 characters)", {}, 400))
            ELSE outbound([op |-> "synthesize_speech", text |-> raw.runs,
                           language_code |-> language_code, name |-> voice_name])

\* The input checks of text_to_speech once data is a non-empty dict.
tts_validate(req) ==
    LET raw == get(req.text, EmptyStr) IN
    IF ~raw.isStr THEN respond(tts_except({"AttributeError"}))
    ELSE
        LET text == strip(raw.runs)
            language_code == get(req.languageCode, DefaultLanguageCode)
            voice_name == get(req.voiceName, DefaultVoiceName)
        IN  IF text = <<>> THEN respond(json_error("Text is required", {}, 400))
            ELSE IF len(text) > MaxTextLen THEN
                respond(json_error("Text too long (max 5000 characters)", {}, 400))
            ELSE outbound([op |-> "synthesize_speech", text |-> text,
                           language_code |-> language_code, name |-> voice_name])

\* Variant: the body is read before the client is looked at.
tts_prologue_json_first(req) ==
    LET data == get_json(req) IN
    IF data.raised THEN respond(tts_except(data.exc))
    ELSE IF client = "None" THEN
        respond(json_error("Text-to-Speech service is not available. Please check your Google Cloud configuration.", {}, 503))
    ELSE IF ~data.truthy THEN respond(json_error("No JSON data provided", {}, 400))
    ELSE IF ~data.isObject THEN respond(tts_except({"AttributeError"}))
    ELSE tts_validate(req)

\* text_to_speech up to its return or its call of client.synthesize_speech.
tts_prologue(req) ==
    IF client = "None" THEN
        respond(json_error("Text-to-Speech service is not available. Please check your Google Cloud configuration.", {}, 503))
    ELSE
        LET data == get_json(req) IN
        IF data.raised THEN respond(tts_except(data.exc))
        ELSE IF ~data.truthy THEN respond(json_error("No JSON data provided", {}, 400))
        ELSE IF ~data.isObject THEN respond(tts_except({"AttributeError"}))
        ELSE tts_validate(req)

\* send_file(tmp_file_path, mimetype='audio/mpeg', as_attachment=False)
send_file(audio) ==
    [NoResp EXCEPT !.status = 200, !.ctype = "audio/mpeg", !.content = <<audio>>]

\* list_voices up to its return or its call of client.list_voices.
voices_prologue(req) ==
    IF client = "None" THEN
        respond(json_error("Text-to-Speech service is not available", {}, 503))
    ELSE outbound([op |-> "list_voices", text |-> <<>>,
                   language_code |-> get(req.language_code, ""), name |-> ""])

voices_ok(voices) == json_ok(voices, Len(voices))

voices_except(e) == json_error("Failed to list voices: ", e, 500)

health_body == [json_ok(<<"healthy", "Flask TTS API">>, 0)
                   EXCEPT !.tts_available = <<client # "None">>]

languages_body == json_ok(<<"languages">>, SupportedLanguageCount)

\* @app.errorhandler(404)
not_found == json_error("Endpoint not found", {}, 404)

\* No handler is registered for 405: werkzeug's default HTML page is sent.
method_not_allowed ==
    [NoResp EXCEPT !.status = 405, !.ctype = "text/html"]

(* ------------------------------- actions ------------------------------- *)
\* `last` records the handler step that has just been taken (the request and
\* what the step produced) until the peer has taken notice of it.  A request
\* arrives once the previous record has been consumed, while provider
\* replies may follow one another directly.
Atomic(handler, req, resp) ==
    /\ last' = [NoLast EXCEPT !.kind = "atomic", !.handler = handler,
                              !.req = req, !.resp = resp]
    /\ UNCHANGED <<env, construct_raises, get_json_raises, client, threads, tmp_files>>

Call(t, handler, req, call) ==
    /\ threads[t] = "idle"
    /\ threads' = [threads EXCEPT ![t] = call.op]
    /\ last' = [NoLast EXCEPT !.kind = "call", !.handler = handler,
                              !.req = req, !.call = call, !.ncalls = 1]
    /\ UNCHANGED <<env, construct_raises, get_json_raises, client, tmp_files>>

\* Variant: a failed call is issued again by the handler.
Complete_retry(t, handler, reply, resp) ==
    /\ last.kind \in {"none", "complete"}
    /\ threads' = [threads EXCEPT ![t] = IF reply.ok THEN "idle" ELSE threads[t]]
    /\ last' = [NoLast EXCEPT !.kind = "complete", !.handler = handler,
                              !.reply = reply, !.resp = resp,
                              !.ncalls = IF reply.ok THEN 0 ELSE 1]
    /\ UNCHANGED <<env, construct_raises, get_json_raises, client>>

\* Variant: a permission failure drops the shared client handle.
Complete_resets_client(t, handler, reply, resp) ==
    /\ last.kind \in {"none", "complete"}
    /\ threads' = [threads EXCEPT ![t] = "idle"]
    /\ last' = [NoLast EXCEPT !.kind = "complete", !.handler = handler,
                              !.reply = reply, !.resp = resp]
    /\ client' = IF ~reply.ok /\ PERMISSION_DENIED \in reply.msg THEN "None" ELSE client
    /\ UNCHANGED <<env, construct_raises, get_json_raises>>

\* The end of a handler that was waiting for the provider: its response.
Complete(t, handler, reply, resp) ==
    /\ last.kind \in {"none", "complete"}
    /\ threads' = [threads EXCEPT ![t] = "idle"]
    /\ last' = [NoLast EXCEPT !.kind = "complete", !.handler = handler,
                              !.reply = reply, !.resp = resp]
    /\ UNCHANGED <<env, construct_raises, get_json_raises, client>>

\* GET /health
health_check ==
    /\ last.kind = "none"
    /\ \E req \in OtherRequests :
        /\ route(req) = "health_check"
        /\ Atomic("health_check", req, health_body)

\* GET /supported-languages
supported_languages ==
    /\ last.kind = "none"
    /\ \E req \in OtherRequests :
        /\ route(req) = "supported_languages"
        /\ Atomic("supported_languages", req, languages_body)

\* an unmatched path
handle_not_found ==
    /\ last.kind = "none"
    /\ \E req \in OtherRequests :
        /\ route(req) = "not_found"
        /\ Atomic("not_found", req, not_found)

\* a matched path with a method its rule does not take
handle_method_not_allowed ==
    /\ last.kind = "none"
    /\ \E req \in OtherRequests :
        /\ route(req) = "method_not_allowed"
        /\ Atomic("method_not_allowed", req, method_not_allowed)

\* POST /tts: the handler answers without calling the provider, or reaches
\* client.synthesize_speech and waits for it in thread t.
text_to_speech ==
    /\ last.kind = "none"
    /\ \E req \in TtsRequests :
        /\ route(req) = "text_to_speech"
        /\ LET r == tts_prologue(req) IN
           IF r.kind = "respond"
           THEN Atomic("text_to_speech", req, r.resp)
           ELSE \E t \in 1..MaxThreads : Call(t, "text_to_speech", req, r.call)

\* synthesize_speech returned: the audio is written to a NamedTemporaryFile
\* created with delete=False and sent with send_file; nothing removes the file.
text_to_speech_return(t, audio) ==
    /\ threads[t] = "synthesize_speech"
    /\ tmp_files < MaxTmpFiles
    /\ tmp_files' = tmp_files + 1
    /\ Complete(t, "text_to_speech", [NoReply EXCEPT !.audio = audio], send_file(audio))

\* synthesize_speech raised
text_to_speech_raise(t, msg) ==
    /\ threads[t] = "synthesize_speech"
    /\ UNCHANGED tmp_files
    /\ Complete(t, "text_to_speech", [NoReply EXCEPT !.ok = FALSE, !.msg = msg], tts_except(msg))

\* GET /voices: the handler answers 503, or reaches client.list_voices and
\* waits for it in thread t.
list_voices ==
    /\ last.kind = "none"
    /\ \E req \in VoicesRequests :
        /\ route(req) = "list_voices"
        /\ LET r == voices_prologue(req) IN
           IF r.kind = "respond"
           THEN Atomic("list_voices", req, r.resp)
           ELSE \E t \in 1..MaxThreads : Call(t, "list_voices", req, r.call)

\* list_voices returned
list_voices_return(t, voices) ==
    /\ threads[t] = "list_voices"
    /\ UNCHANGED tmp_files
    /\ Complete(t, "list_voices", [NoReply EXCEPT !.voices = voices], voices_ok(voices))

\* list_voices raised
list_voices_raise(t, msg) ==
    /\ threads[t] = "list_voices"
    /\ UNCHANGED tmp_files
    /\ Complete(t, "list_voices", [NoReply EXCEPT !.ok = FALSE, !.msg = msg], voices_except(msg))

\* the record of the last step is consumed; no program state changes
observe ==
    /\ last.kind # "none"
    /\ last' = NoLast
    /\ UNCHANGED <<env, construct_raises, get_json_raises, client, threads, tmp_files>>

Next ==
    \/ health_check
    \/ supported_languages
    \/ handle_not_found
    \/ handle_method_not_allowed
    \/ text_to_speech
    \/ \E t \in 1..MaxThreads, audio \in Audio : text_to_speech_return(t, audio)
    \/ \E t \in 1..MaxThreads, msg \in ProviderMessages : text_to_speech_raise(t, msg)
    \/ list_voices
    \/ \E t \in 1..MaxThreads, voices \in VoiceLists : list_voices_return(t, voices)
    \/ \E t \in 1..MaxThreads, msg \in ProviderMessages : list_voices_raise(t, msg)
    \/ observe

Spec == Init /\ [][Next]_vars

(* ============================ properties =============================== *)
\* Helpers of the properties, written independently of the handlers.
StartupFailed ==
    \/ \E v \in required_vars : env[v] \in {"unset", "empty"}
    \/ construct_raises

ChRuns(s) == {i \in 1..Len(s) : s[i].c = "ch"}
FirstCh(s) == CHOOSE i \in ChRuns(s) : \A j \in ChRuns(s) : i <= j
LastCh(s) == CHOOSE i \in ChRuns(s) : \A j \in ChRuns(s) : j <= i

\* the text without its leading and trailing whitespace
Trimmed(s) == IF ChRuns(s) = {} THEN <<>> ELSE SubSeq(s, FirstCh(s), LastCh(s))

RECURSIVE RunSum(_, _, _)
RunSum(s, lo, hi) == IF lo > hi THEN 0 ELSE s[lo].n + RunSum(s, lo + 1, hi)

\* number of characters of the text after trimming
TrimmedLen(s) == IF ChRuns(s) = {} THEN 0 ELSE RunSum(s, FirstCh(s), LastCh(s))

InFlight == {t \in 1..MaxThreads : threads[t] # "idle"}

Answered == last.kind \in {"atomic", "complete"}

\* a POST /tts whose body is a JSON object with a string (or no) text
StringTextRequest ==
    /\ last.kind \in {"atomic", "call"}
    /\ last.handler = "text_to_speech"
    /\ last.req.body = "object"
    /\ get(last.req.text, EmptyStr).isStr

RequestTextLen == TrimmedLen(get(last.req.text, EmptyStr).runs)

(* C1: with the client absent, every POST /tts and every GET /voices is     *)
(* answered 503 whatever it carries, and no provider call is made.          *)
C1_AbsentClient503 ==
    (client = "None" /\ last.handler \in {"text_to_speech", "list_voices"})
        => /\ last.kind = "atomic"
           /\ last.resp.status = 503
           /\ last.resp.hasError
           /\ last.ncalls = 0
           /\ InFlight = {}

C1_Witness ==
    /\ client = "None"
    /\ last.handler = "text_to_speech"
    /\ last.req.body = "malformed"
    /\ last.resp.status = 503

(* C2: with the client present, POST /tts with no JSON body or with a body  *)
(* that is not JSON is answered 400 without a provider call.                *)
C2_NonJsonBody400 ==
    (/\ client # "None"
     /\ last.handler = "text_to_speech"
     /\ last.kind \in {"atomic", "call"}
     /\ last.req.body \in {"none", "malformed"})
        => (last.kind = "atomic" /\ last.resp.status = 400 /\ last.ncalls = 0)

(* C3: with the client present and a JSON object body, a text whose trimmed *)
(* length is in 1..5000 reaches the provider call, and a text whose trimmed *)
(* length is 0 (or an absent text) or above 5000 is answered 400 without a  *)
(* provider call.                                                           *)
C3_LengthDecides ==
    (client # "None" /\ StringTextRequest)
        => IF RequestTextLen \in 1..MaxTextLen
           THEN /\ last.kind = "call"
                /\ last.call.op = "synthesize_speech"
                /\ last.ncalls = 1
           ELSE /\ last.kind = "atomic"
                /\ last.resp.status = 400
                /\ last.ncalls = 0

\* a text of 5000 characters followed by whitespace: 5001 characters before
\* trimming, accepted after it
C3_Witness ==
    /\ client # "None"
    /\ StringTextRequest
    /\ last.kind = "call"
    /\ RequestTextLen = MaxTextLen
    /\ len(get(last.req.text, EmptyStr).runs) > MaxTextLen

(* C4 as stated: each marker found in the provider error message decides    *)
(* the status of POST /tts by itself, also when several markers occur.      *)
C4_EachMarkerDecides ==
    (last.kind = "complete" /\ last.handler = "text_to_speech" /\ ~last.reply.ok)
        => /\ PERMISSION_DENIED \in last.reply.msg => last.resp.status = 403
           /\ INVALID_ARGUMENT \in last.reply.msg => last.resp.status = 400
           /\ UNIMPLEMENTED \in last.reply.msg => last.resp.status = 503
           /\ last.reply.msg \cap Markers = {} => last.resp.status = 500

(* C4 amended: the markers are tried in the order PERMISSION_DENIED,        *)
(* INVALID_ARGUMENT, UNIMPLEMENTED and the first one found decides: 403,    *)
(* 400, 503; a message with none of them gives 500.                         *)
C4_FirstMarkerDecides ==
    (last.kind = "complete" /\ last.handler = "text_to_speech" /\ ~last.reply.ok)
        => /\ PERMISSION_DENIED \in last.reply.msg => last.resp.status = 403
           /\ (INVALID_ARGUMENT \in last.reply.msg /\ PERMISSION_DENIED \notin last.reply.msg)
                => last.resp.status = 400
           /\ (UNIMPLEMENTED \in last.reply.msg
                /\ last.reply.msg \cap {PERMISSION_DENIED, INVALID_ARGUMENT} = {})
                => last.resp.status = 503
           /\ last.reply.msg \cap Markers = {} => last.resp.status = 500

C4_Witness ==
    /\ last.kind = "complete"
    /\ last.handler = "text_to_speech"
    /\ ~last.reply.ok
    /\ {PERMISSION_DENIED, INVALID_ARGUMENT} \subseteq last.reply.msg
    /\ last.resp.status = 403

(* C5: GET /health always answers 200 and reports tts_available = false     *)
(* exactly when the client failed to construct at startup (a required       *)
(* variable missing, or an exception), whatever has happened since.         *)
C5_HealthReportsStartup ==
    last.handler = "health_check"
        => /\ last.resp.status = 200
           /\ last.resp.tts_available = <<~StartupFailed>>

\* health is asked after a provider call has succeeded and while another
\* call is in flight
C5_Witness ==
    /\ last.handler = "health_check"
    /\ last.resp.tts_available = <<TRUE>>
    /\ tmp_files > 0
    /\ InFlight # {}

(* C6: every response is a success or a failure whose body is JSON with an  *)
(* error field; the only response that is not JSON is the 200 audio/mpeg of *)
(* POST /tts; POST /tts answers only 200, 400, 403, 500 or 503.             *)
C6_FailuresAreJsonErrors ==
    Answered
        => /\ last.resp.status # 200
                => (last.resp.ctype = "application/json" /\ last.resp.hasError)
           /\ last.resp.ctype # "application/json"
                => /\ last.handler = "text_to_speech"
                   /\ last.resp.status = 200
                   /\ last.resp.ctype = "audio/mpeg"
           /\ last.handler = "text_to_speech"
                => last.resp.status \in {200, 400, 403, 500, 503}

(* C7: the provider call of POST /tts carries the trimmed text, and the     *)
(* languageCode and voiceName of the request when present, "en-US" and      *)
(* "en-US-Wavenet-D" when absent, each independently of the other.          *)
C7_CallArguments ==
    (last.kind = "call" /\ last.handler = "text_to_speech")
        => /\ last.call.text = Trimmed(last.req.text[1].runs)
           /\ last.call.language_code =
                (IF last.req.languageCode = <<>> THEN "en-US" ELSE last.req.languageCode[1])
           /\ last.call.name =
                (IF last.req.voiceName = <<>> THEN "en-US-Wavenet-D" ELSE last.req.voiceName[1])

\* languageCode given, voiceName defaulted, text with whitespace around it
C7_Witness ==
    /\ last.kind = "call"
    /\ last.handler = "text_to_speech"
    /\ last.req.languageCode = <<"fr-FR">>
    /\ last.req.voiceName = <<>>
    /\ last.call.name = "en-US-Wavenet-D"
    /\ last.call.text # last.req.text[1].runs

(* C8: once no POST /tts is being served, the service holds no audio: the   *)
(* amount of retained audio does not grow with the requests completed.      *)
C8_NoAudioRetained ==
    (last.kind = "none" /\ \A t \in 1..MaxThreads : threads[t] # "synthesize_speech")
        => tmp_files = 0

(* C9: a step of a handler makes at most one provider call; a POST /tts or  *)
(* GET /voices that passes validation makes exactly one, also when the same *)
(* request was served before; a failed call is not retried and its failure  *)
(* is the response; the other routes make no call.                          *)
C9_OneCallNoRetry ==
    /\ last.ncalls <= 1
    /\ (last.kind = "call") <=> (last.ncalls = 1)
    /\ last.handler \in {"health_check", "supported_languages", "not_found", "method_not_allowed"}
        => last.kind \in {"none", "atomic"}
    /\ (last.kind \in {"atomic", "call"} /\ last.handler = "list_voices" /\ client # "None")
        => last.kind = "call"
    /\ (client # "None" /\ StringTextRequest /\ RequestTextLen \in 1..MaxTextLen)
        => last.kind = "call"
    /\ (last.kind = "complete" /\ ~last.reply.ok)
        => (last.resp.status >= 400 /\ last.resp.hasError /\ last.resp.detail \subseteq last.reply.msg)

\* a failed call has been answered while another call is still in flight
C9_Witness ==
    /\ last.kind = "complete"
    /\ ~last.reply.ok
    /\ last.resp.status = 500
    /\ InFlight # {}

====
